---- MODULE Spec2Model ----
(***************************************************************************)
(* ArxivClient (src/mcp_simple_arxiv/arxiv_client.py): the rate gate       *)
(* _wait_for_rate_limit, and the two remote operations search and          *)
(* get_paper, run by asyncio tasks on one event loop.                      *)
(*                                                                         *)
(* One step of the model is what one task runs between two suspension      *)
(* points of the event loop (cooperative scheduling): waiting for the      *)
(* asyncio.Lock, asyncio.sleep inside the gate, and the awaits of          *)
(* httpx.AsyncClient.get (connecting, then waiting for the response).      *)
(* Time is a monotonic clock counted in whole seconds; asyncio.sleep(d)    *)
(* returns no earlier than d seconds after it was called, and may return   *)
(* later.                                                                  *)
(***************************************************************************)
EXTENDS Integers, Sequences, FiniteSets, TLC

\* ---------------------------------------------------------------- bounds
NTasks == 4
MaxTime == 9
MaxCallTime == 6
MaxLinks == 3
NFairTasks == 3

\* ------------------------------------------------------ program constants
Interval == 3
ApiLimit == 2000
ToolMaxResults == 50
DefaultMaxResults == 10

Tasks == 1..NTasks
\* _last_request is None (line 22): modelled as a value that is no time.
None == -1
Null == "null"
Absent == "absent"

VARIABLES
    now,            \* the clock (datetime.now(), loop.time()), in seconds
    last_request,   \* self._last_request: None or a time
    lock_locked,    \* self._lock._locked
    lock_waiters,   \* self._lock._waiters: tasks whose future is queued
    task,           \* per task: position in search/get_paper and its locals
    stamps,         \* history: the values stored in _last_request, in order
    last_sent,      \* history: when the latest GET went on the wire, or None
    fn_pc,          \* a function applied on its own: "none", "ready", "done"
    fn_in,          \* its argument
    fn_out          \* its result

fn == <<fn_pc, fn_in, fn_out>>
vars == <<now, last_request, lock_locked, lock_waiters, task, stamps, last_sent,
          fn_pc, fn_in, fn_out>>

\* ------------------------------------------------------------ plain data
NoReq == [search_query |-> Absent, id_list |-> Absent, max_results |-> 0,
          sortBy |-> Absent, sortOrder |-> Absent]
NoOutcome == [kind |-> "none", status |-> 0, body |-> "none"]
NoExc == [type |-> "none", msg |-> "", detail |-> ""]
NoResult == [kind |-> "none", value |-> <<>>, exc |-> NoExc]
NoCall == [op |-> "none", query |-> "", max_results |-> 0, paper_id |-> ""]

IdleTask == [pc |-> "idle", call |-> NoCall, fut |-> "none", wakeAt |-> 0,
             req |-> NoReq, outcome |-> NoOutcome, result |-> NoResult,
             cancelledAt |-> "none",
             gate_passes |-> 0,       \* returns of _wait_for_rate_limit
             requests |-> 0,          \* GET requests sent
             clients_opened |-> 0,    \* httpx.AsyncClient() constructed
             client_open |-> FALSE]   \* inside async with httpx.AsyncClient()

SearchCall(q, n) == [op |-> "search", query |-> q, max_results |-> n, paper_id |-> ""]
GetPaperCall(id) == [op |-> "get_paper", query |-> "", max_results |-> 0, paper_id |-> id]
\* A direct call of _wait_for_rate_limit.
WaitCall == [op |-> "wait_for_rate_limit", query |-> "", max_results |-> 0, paper_id |-> ""]

Min(a, b) == IF a < b THEN a ELSE b

\* ------------------------------------------------------------- the feed
\* The bodies a 2xx response may carry.
Bodies == {"atom_entries", "atom_empty", "empty_string", "plain_text"}

Entry1 == [id |-> <<"http://arxiv.org", "/abs/", "2103.08220v2">>,
           links |-> << [type |-> "text/html", href |-> "abs1"],
                        [type |-> "application/pdf", href |-> "pdf1"] >>]
Entry2 == [id |-> <<"http://arxiv.org", "/abs/", "1706.03762v7">>,
           links |-> << [type |-> "application/pdf", href |-> "pdf2"] >>]

\* feedparser.parse(response.text): always a FeedParserDict (a dict) with an
\* 'entries' list; input that is no feed sets bozo and leaves the list empty.
feedparser_parse(body) ==
    [is_dict |-> TRUE,
     keys    |-> {"bozo", "entries", "feed", "headers"},
     bozo    |-> body \in {"empty_string", "plain_text"},
     entries |-> IF body = "atom_entries" THEN <<Entry1, Entry2>> ELSE <<>>]

\* entry.get('id', '').split("/abs/")[-1]: what follows the last "/abs/".
RECURSIVE AfterAbs(_)
AfterAbs(s) ==
    IF \E i \in 1..Len(s) : s[i] = "/abs/"
    THEN AfterAbs(Tail(s))
    ELSE s

\* The loop over entry['links'] of one media type: each match overwrites.
RECURSIVE LinkOfType(_, _, _)
LinkOfType(links, type, acc) ==
    IF links = <<>> THEN acc
    ELSE LinkOfType(Tail(links), type,
                    IF Head(links).type = type THEN Head(links).href ELSE acc)

parse_entry(entry) ==
    [id       |-> AfterAbs(entry.id),
     pdf_url  |-> LinkOfType(entry.links, "application/pdf", Null),
     html_url |-> LinkOfType(entry.links, "text/html", Null)]

\* ---------------------------------------------------------- the requests
Max(a, b) == IF a > b THEN a ELSE b
ClampBothEnds(n) == Max(1, Min(n, ApiLimit))
\* Line 103: max_results = min(max_results, 2000)
ClampMaxResults(n) == Min(n, ApiLimit)

search_params(call) ==
    [search_query |-> call.query, id_list |-> Absent,
     max_results |-> ClampMaxResults(call.max_results),
     sortBy |-> "submittedDate", sortOrder |-> "descending"]

get_paper_params(call) ==
    [search_query |-> Absent, id_list |-> call.paper_id, max_results |-> 1,
     sortBy |-> Absent, sortOrder |-> Absent]

BuildParams(call) ==
    IF call.op = "search" THEN search_params(call) ELSE get_paper_params(call)

\* ------------------------------------------------ the outcome of a request
ConnectError == [kind |-> "connect_error", status |-> 0, body |-> "none"]
HttpResponse(s, b) == [kind |-> "response", status |-> s, body |-> b]

\* response.raise_for_status(): anything but 2xx raises httpx.HTTPStatusError.
IsSuccess(status) == status >= 200 /\ status <= 299

\* httpx.HTTPError is raised by client.get (transport) or raise_for_status.
RaisesHTTPError(out) ==
    out.kind = "connect_error" \/ ~IsSuccess(out.status)

ValueError(m, d) == [type |-> "ValueError", msg |-> m, detail |-> d]
Raise(exc) == [kind |-> "raise", value |-> <<>>, exc |-> exc]
ReturnList(v) == [kind |-> "list", value |-> v, exc |-> NoExc]
ReturnDict(v) == [kind |-> "dict", value |-> <<v>>, exc |-> NoExc]
ReturnNone == [kind |-> "None", value |-> <<>>, exc |-> NoExc]

HTTPErrorText(out) ==
    IF out.kind = "connect_error" THEN "ConnectError" ELSE ToString(out.status)

MapSeq(s) == [i \in 1..Len(s) |-> parse_entry(s[i])]

\* Lines 120 and 158: not a dict, or without the key 'entries'.
InvalidFeed(feed) == ~feed.is_dict \/ "entries" \notin feed.keys

\* except httpx.HTTPError as e: raise ValueError(f"arXiv API HTTP error: {e}")
HTTPErrorTypeKept(out) ==
    Raise([type |-> "httpx.HTTPError", msg |-> "", detail |-> HTTPErrorText(out)])
HTTPErrorRaised(out) ==
    Raise(ValueError("arXiv API HTTP error: ", HTTPErrorText(out)))

InvalidResponseRaised == Raise(ValueError("Invalid response from arXiv API", ""))

\* Line 164: raise ValueError(f"Paper not found: {paper_id}")
NotFoundWithoutId(call) == Raise(ValueError("Paper not found: ", ""))
NotFoundRaised(call) == Raise(ValueError("Paper not found: ", call.paper_id))

search_result(call, out) ==
    IF RaisesHTTPError(out)
    THEN HTTPErrorRaised(out)
    ELSE LET feed == feedparser_parse(out.body) IN
         IF InvalidFeed(feed)
         THEN InvalidResponseRaised
         ELSE IF feed.entries = <<>>
              THEN ReturnList(<<>>)
              ELSE ReturnList(MapSeq(feed.entries))

get_paper_result(call, out) ==
    IF RaisesHTTPError(out)
    THEN HTTPErrorRaised(out)
    ELSE LET feed == feedparser_parse(out.body) IN
         IF InvalidFeed(feed)
         THEN InvalidResponseRaised
         ELSE IF feed.entries = <<>>
              THEN NotFoundRaised(call)
              ELSE ReturnDict(parse_entry(feed.entries[1]))

CallResult(call, out) ==
    IF call.op = "search" THEN search_result(call, out)
    ELSE get_paper_result(call, out)

\* ------------------------------------------------------------- the lock
\* asyncio.Lock.acquire takes the lock at once only when it is free and every
\* queued future is cancelled.
CanAcquireUnlocked(locked, ws, tk) == TRUE
CanAcquire(locked, ws, tk) ==
    ~locked /\ \A i \in 1..Len(ws) : tk[ws[i]].fut = "cancelled"

NoWakeUp(ws, tk) == tk
\* asyncio.Lock._wake_up_first: the first queued future gets its result,
\* unless it is already done.
wake_up_first(ws, tk) ==
    IF ws = <<>> THEN tk
    ELSE IF tk[Head(ws)].fut = "pending"
         THEN [tk EXCEPT ![Head(ws)].fut = "result"]
         ELSE tk

Remove(ws, t) == SelectSeq(ws, LAMBDA u : u # t)

\* ------------------------------------------------------------- the gate
NeedsWaitNoneAsNow(last, n) == last = None \/ n - last < Interval
\* Lines 28-31: a timestamp exists and less than the interval has elapsed.
NeedsWait(last, n) == last # None /\ n - last < Interval
RemainingDelayShort(elapsed) == Interval - 1 - elapsed
\* Line 33: asyncio.sleep(3 - elapsed.total_seconds())
RemainingDelay(elapsed) == Interval - elapsed

\* _wait_for_rate_limit has returned. A direct caller is done; search and
\* get_paper build their parameters, open their client and await client.get.
AfterGate(r) ==
    IF r.call.op = "wait_for_rate_limit"
    THEN [r EXCEPT !.pc = "done", !.fut = "none", !.wakeAt = 0,
                   !.gate_passes = @ + 1,
                   !.result = ReturnNone]
    ELSE [r EXCEPT !.pc = "connect", !.fut = "none", !.wakeAt = 0,
                   !.gate_passes = @ + 1,
                   !.req = BuildParams(r.call),
                   !.clients_opened = @ + 1,
                   !.client_open = TRUE]

CloseOnReturnOnly(r) ==
    IF r.pc = "done" /\ r.result.kind # "raise"
    THEN [r EXCEPT !.client_open = FALSE]
    ELSE r
\* Lines 112 and 152: leaving the async with httpx.AsyncClient() block, by a
\* return or by an exception, closes the client.
ExitClient(r) == [r EXCEPT !.client_open = FALSE]

RetryOnHTTPError(r, out) ==
    IF RaisesHTTPError(out)
    THEN [r EXCEPT !.pc = "connect"]
    ELSE [r EXCEPT !.pc = "done", !.outcome = out,
                   !.result = CallResult(r.call, out)]
\* Lines 115-133 and 155-170: the outcome of client.get is turned into the
\* call's result, once; the call ends.
Finish(r, out) ==
    [r EXCEPT !.pc = "done", !.outcome = out, !.result = CallResult(r.call, out)]

ReleaseWithoutStamp(t, tk, ws) ==
    /\ UNCHANGED <<last_request, stamps>>
    /\ lock_locked' = FALSE
    /\ lock_waiters' = ws
    /\ task' = wake_up_first(ws, [tk EXCEPT ![t] = AfterGate(tk[t])])

\* Line 34 and the end of the async with block: store the time, release the
\* lock, return.
StampAndRelease(t, tk, ws) ==
    /\ last_request' = now
    /\ stamps' = Append(stamps, now)
    /\ lock_locked' = FALSE
    /\ lock_waiters' = ws
    /\ task' = wake_up_first(ws, [tk EXCEPT ![t] = AfterGate(tk[t])])

GateBodyFullSleep(t, tk, ws) ==
    IF NeedsWait(last_request, now)
    THEN /\ task' = [tk EXCEPT ![t].pc = "sleep", ![t].fut = "none",
                               ![t].wakeAt = now + Interval]
         /\ lock_locked' = TRUE
         /\ lock_waiters' = ws
         /\ UNCHANGED <<last_request, stamps>>
    ELSE StampAndRelease(t, tk, ws)
\* Lines 28-34 run by task t, which has just taken the lock.
GateBody(t, tk, ws) ==
    IF NeedsWait(last_request, now)
    THEN /\ task' = [tk EXCEPT ![t].pc = "sleep", ![t].fut = "none",
                               ![t].wakeAt = now + RemainingDelay(now - last_request)]
         /\ lock_locked' = TRUE
         /\ lock_waiters' = ws
         /\ UNCHANGED <<last_request, stamps>>
    ELSE StampAndRelease(t, tk, ws)

\* ------------------------------------------------------------- actions
Init ==
    /\ now = 0
    /\ last_request = None
    /\ lock_locked = FALSE
    /\ lock_waiters = <<>>
    /\ task = [t \in Tasks |-> IdleTask]
    /\ stamps = <<>>
    /\ last_sent = None
    /\ fn_pc = "none"
    /\ fn_in = "none"
    /\ fn_out = "none"

\* A task calls search or get_paper and runs up to its first suspension.
Call(t, call) ==
    /\ task[t].pc = "idle"
    /\ LET tk == [task EXCEPT ![t].call = call] IN
       IF CanAcquire(lock_locked, lock_waiters, task)
       THEN GateBody(t, tk, lock_waiters)
       ELSE /\ task' = [tk EXCEPT ![t].pc = "lockwait", ![t].fut = "pending"]
            /\ lock_waiters' = Append(lock_waiters, t)
            /\ UNCHANGED <<last_request, lock_locked, stamps>>
    /\ UNCHANGED <<now, last_sent, fn>>

\* A queued task whose future got its result runs: it leaves the queue, takes
\* the lock and runs the gate's body.
LockGranted(t) ==
    /\ task[t].pc = "lockwait"
    /\ task[t].fut = "result"
    /\ GateBody(t, task, Remove(lock_waiters, t))
    /\ UNCHANGED <<now, last_sent, fn>>

\* asyncio.sleep returns, no earlier than asked.
Wake(t) ==
    /\ task[t].pc = "sleep"
    /\ now >= task[t].wakeAt
    /\ StampAndRelease(t, task, lock_waiters)
    /\ UNCHANGED <<now, last_sent, fn>>

\* The connection is up and the GET request goes on the wire.
SendGet(t) ==
    /\ task[t].pc = "connect"
    /\ last_sent' = now
    /\ task' = [task EXCEPT ![t].pc = "inflight", ![t].requests = @ + 1]
    /\ UNCHANGED <<now, last_request, lock_locked, lock_waiters, stamps, fn>>

\* client.get fails before the request is sent (httpx.ConnectError).
ConnectFail(t) ==
    /\ task[t].pc = "connect"
    /\ task' = [task EXCEPT ![t] = ExitClient(Finish(task[t], ConnectError))]
    /\ UNCHANGED <<now, last_request, lock_locked, lock_waiters, stamps, last_sent, fn>>

RespondForgetsFailedDispatch(t, out) ==
    /\ task[t].pc = "inflight"
    /\ task' = [task EXCEPT ![t] = ExitClient(Finish(task[t], out))]
    /\ last_request' = IF RaisesHTTPError(out) THEN None ELSE last_request
    /\ UNCHANGED <<now, lock_locked, lock_waiters, stamps, last_sent, fn>>
\* The response arrives (or the transport fails after the request was sent);
\* the task runs to the end of search/get_paper.
Respond(t, out) ==
    /\ task[t].pc = "inflight"
    /\ task' = [task EXCEPT ![t] = ExitClient(Finish(task[t], out))]
    /\ UNCHANGED <<now, last_request, lock_locked, lock_waiters, stamps, last_sent, fn>>

\* task.cancel() while the task waits for the lock: its future is cancelled
\* and stays queued until the task runs.
CancelWaiter(t) ==
    /\ task[t].pc = "lockwait"
    /\ task[t].fut = "pending"
    /\ task' = [task EXCEPT ![t].fut = "cancelled"]
    /\ UNCHANGED <<now, last_request, lock_locked, lock_waiters, stamps, last_sent, fn>>

\* The CancelledError handler of Lock.acquire: the task leaves the queue and,
\* if the lock is free, passes the wake-up on. Reached with the future
\* cancelled, or with its result set and the task cancelled before it ran.
AcquireCancelled(t) ==
    /\ task[t].pc = "lockwait"
    /\ task[t].fut \in {"cancelled", "result"}
    /\ LET ws == Remove(lock_waiters, t)
           tk == [task EXCEPT ![t].pc = "cancelled", ![t].fut = "none",
                              ![t].cancelledAt = "lockwait"] IN
       /\ lock_waiters' = ws
       /\ task' = IF lock_locked THEN tk ELSE wake_up_first(ws, tk)
    /\ UNCHANGED <<now, last_request, lock_locked, stamps, last_sent, fn>>

\* task.cancel() during asyncio.sleep inside the gate: CancelledError leaves
\* the async with block, which releases the lock; line 34 is not run.
CancelSleep(t) ==
    /\ task[t].pc = "sleep"
    /\ lock_locked' = FALSE
    /\ task' = wake_up_first(lock_waiters,
                             [task EXCEPT ![t].pc = "cancelled", ![t].wakeAt = 0,
                                          ![t].cancelledAt = "sleep"])
    /\ UNCHANGED <<now, last_request, lock_waiters, stamps, last_sent, fn>>

\* task.cancel() while awaiting client.get.
CancelRequest(t) ==
    /\ task[t].pc \in {"connect", "inflight"}
    /\ task' = [task EXCEPT ![t] = ExitClient([task[t] EXCEPT
                                         !.pc = "cancelled",
                                         !.cancelledAt = "request"])]
    /\ UNCHANGED <<now, last_request, lock_locked, lock_waiters, stamps, last_sent, fn>>

\* A second passes, up to the horizon of the specification.
TickTo(horizon) ==
    /\ now < horizon
    /\ now' = now + 1
    /\ UNCHANGED <<last_request, lock_locked, lock_waiters, task, stamps, last_sent, fn>>

Tick == TickTo(MaxTime)
TickCall == TickTo(MaxCallTime)

\* ------------------------------------------------------- specifications
\* SpecGate: NTasks tasks call _wait_for_rate_limit on one client.
NextGate ==
    \/ \E t \in Tasks : Call(t, WaitCall)
    \/ \E t \in Tasks : LockGranted(t)
    \/ \E t \in Tasks : Wake(t)
    \/ \E t \in Tasks : CancelWaiter(t)
    \/ \E t \in Tasks : AcquireCancelled(t)
    \/ \E t \in Tasks : CancelSleep(t)
    \/ Tick

SpecGate == Init /\ [][NextGate]_vars

\* SpecGateFair: SpecGate under the scheduling of the event loop. A task
\* whose future is done and a task whose sleep is due are run in the end, and
\* time goes on: the clock stops at the horizon only when no sleep is pending.
\* Nothing obliges a task to call or to be cancelled.
FairTasks == 1..NFairTasks

TickFair ==
    /\ \/ now < MaxTime
       \/ \E t \in FairTasks : task[t].pc = "sleep" /\ now < task[t].wakeAt
    /\ now' = now + 1
    /\ UNCHANGED <<last_request, lock_locked, lock_waiters, task, stamps, last_sent, fn>>

NextGateFair ==
    \/ \E t \in FairTasks : Call(t, WaitCall)
    \/ \E t \in FairTasks : LockGranted(t)
    \/ \E t \in FairTasks : Wake(t)
    \/ \E t \in FairTasks : CancelWaiter(t)
    \/ \E t \in FairTasks : AcquireCancelled(t)
    \/ \E t \in FairTasks : CancelSleep(t)
    \/ TickFair

EventLoopFairness ==
    /\ WF_vars(TickFair)
    /\ \A t \in FairTasks :
           /\ WF_vars(LockGranted(t))
           /\ WF_vars(AcquireCancelled(t))
           /\ WF_vars(Wake(t))

SpecGateFair == Init /\ [][NextGateFair]_vars /\ EventLoopFairness

\* Spec: two tasks call search and get_paper on one client, over every input
\* and every outcome of a request. With two callers and no earlier timestamp
\* the lock is never contended (the first call does not suspend inside the
\* gate), so the queue of the lock is exercised by SpecGate.
TwoCallers == {1, 2}
PaperIds == {"2103.08220", "0000.00000"}
MaxResultsInputs == {-5, 0, 10, 2000, 2001, 5000}
AllCalls ==
    {SearchCall("q", n) : n \in MaxResultsInputs} \cup {GetPaperCall(id) : id \in PaperIds}
AllOutcomes ==
    {ConnectError}
    \cup {HttpResponse(200, b) : b \in Bodies}
    \cup {HttpResponse(s, "error_page") : s \in {301, 404, 503}}

Next ==
    \/ \E t \in TwoCallers : \E c \in AllCalls : Call(t, c)
    \/ \E t \in TwoCallers : Wake(t)
    \/ \E t \in TwoCallers : SendGet(t)
    \/ \E t \in TwoCallers : ConnectFail(t)
    \/ \E t \in TwoCallers : \E o \in AllOutcomes : Respond(t, o)
    \/ \E t \in TwoCallers : CancelSleep(t)
    \/ \E t \in TwoCallers : CancelRequest(t)
    \/ TickCall

Spec == Init /\ [][Next]_vars

\* SpecParse: _parse_entry applied to one entry, over every list of at most
\* MaxLinks links.
LinkTypes == {"application/pdf", "text/html", "image/png"}
LinkValues == [type : LinkTypes, href : {"u1", "u2"}]
LinkLists == UNION {[1..k -> LinkValues] : k \in 0..MaxLinks}
Entries == {[id |-> <<"http://arxiv.org", "/abs/", "2103.08220v2">>, links |-> l] :
               l \in LinkLists}
NoPaper == [id |-> <<>>, pdf_url |-> Null, html_url |-> Null]

InitParse ==
    /\ now = 0
    /\ last_request = None
    /\ lock_locked = FALSE
    /\ lock_waiters = <<>>
    /\ task = [t \in Tasks |-> IdleTask]
    /\ stamps = <<>>
    /\ last_sent = None
    /\ fn_pc = "ready"
    /\ fn_in \in Entries
    /\ fn_out = NoPaper

ParseEntry ==
    /\ fn_pc = "ready"
    /\ fn_out' = parse_entry(fn_in)
    /\ fn_pc' = "done"
    /\ UNCHANGED <<now, last_request, lock_locked, lock_waiters, task, stamps,
                   last_sent, fn_in>>

NextParse == ParseEntry

SpecParse == InitParse /\ [][NextParse]_vars

\* ------------------------------------------------------------ call_tool
\* server.py, call_tool: the arguments mapping, the client's answer and the
\* taxonomy store's answers are the inputs.
ToolNames == {"search_papers", "get_paper_data", "list_categories",
              "update_categories", "no_such_tool"}
MaxResultsArgs == {Absent, "7", "80", "many"}
Arguments == [query : {Absent, "ti:x"},
              max_results : MaxResultsArgs,
              paper_id : {Absent, "2103.08220"},
              primary_category : {Absent, "cs"}]
SearchResults == {ReturnList(<<>>), ReturnList(<<parse_entry(Entry1)>>),
                  HTTPErrorRaised(ConnectError)}
PaperResults == {ReturnDict(parse_entry(Entry1)),
                 NotFoundRaised(GetPaperCall("2103.08220")),
                 HTTPErrorRaised(ConnectError)}
TaxonomyResults == {"taxonomy", "malformed", "raises"}
Environments == [search : SearchResults, paper : PaperResults,
                 load : TaxonomyResults, update : TaxonomyResults]
ToolInputs == [name : ToolNames, arguments : Arguments, env : Environments]

KeyError(k) == [type |-> "KeyError", msg |-> k, detail |-> ""]
OSError == [type |-> "OSError", msg |-> "taxonomy store", detail |-> ""]
ParsesAsInt(v) == v \in {"7", "80"}
int_of(v) == CASE v = "7" -> 7 [] v = "80" -> 80 [] v = Absent -> DefaultMaxResults
str(e) == <<e.msg, e.detail>>

TextContent(text, detail, flagged) ==
    [type |-> "text", text |-> text, detail |-> detail, isError |-> flagged]
NoContent == [type |-> "none", text |-> "", detail |-> <<>>, isError |-> FALSE]
ToolReturns(content, called) ==
    [kind |-> "return", content |-> content, exc |-> NoExc, called |-> called]
ToolRaises(e, called) ==
    [kind |-> "raise", content |-> NoContent, exc |-> e, called |-> called]

search_papers(arguments, env) ==
    IF arguments.query = Absent
    THEN ToolRaises(KeyError("query"), NoCall)
    ELSE IF ~(arguments.max_results = Absent \/ ParsesAsInt(arguments.max_results))
    THEN ToolRaises(ValueError("invalid literal for int(): ",
                               arguments.max_results), NoCall)
    ELSE LET max_results == Min(int_of(arguments.max_results), ToolMaxResults)
             called == SearchCall(arguments.query, max_results)
         IN IF env.search.kind = "raise"
            THEN ToolRaises(env.search.exc, called)
            ELSE ToolReturns(TextContent("Search Results:", env.search.value,
                                         FALSE), called)

get_paper_data(arguments, env) ==
    IF arguments.paper_id = Absent
    THEN ToolRaises(KeyError("paper_id"), NoCall)
    ELSE LET called == GetPaperCall(arguments.paper_id)
         IN IF env.paper.kind = "raise"
            THEN ToolRaises(env.paper.exc, called)
            ELSE ToolReturns(TextContent("Title:", env.paper.value, FALSE),
                             called)

list_categories(arguments, env) ==
    IF env.load = "raises"
    THEN ToolReturns(TextContent("Error loading category taxonomy.", <<>>,
                                 FALSE), NoCall)
    ELSE IF env.load = "malformed"
    THEN ToolRaises(KeyError("name"), NoCall)
    ELSE ToolReturns(TextContent("arXiv Categories:",
                                 <<arguments.primary_category>>, FALSE), NoCall)

update_categories(env) ==
    IF env.update = "raises"
    THEN ToolReturns(TextContent("Error updating taxonomy: ", str(OSError),
                                 TRUE), NoCall)
    ELSE IF env.update = "malformed"
    THEN ToolReturns(TextContent("Error updating taxonomy: ",
                                 str(KeyError("name")), TRUE), NoCall)
    ELSE ToolReturns(TextContent("Successfully updated category taxonomy.",
                                 <<>>, FALSE), NoCall)

unknown_tool(name) ==
    ToolReturns(TextContent("Unknown tool: ", <<name>>, TRUE), NoCall)

tool_body(name, arguments, env) ==
    CASE name = "search_papers" -> search_papers(arguments, env)
      [] name = "get_paper_data" -> get_paper_data(arguments, env)
      [] name = "list_categories" -> list_categories(arguments, env)
      [] name = "update_categories" -> update_categories(env)
      [] OTHER -> unknown_tool(name)

call_tool(name, arguments, env) ==
    LET r == tool_body(name, arguments, env)
    IN IF r.kind = "raise"
       THEN ToolReturns(TextContent("Error: ", str(r.exc), TRUE), r.called)
       ELSE r

NoToolResult == [kind |-> "none", content |-> NoContent, exc |-> NoExc,
                 called |-> NoCall]

InitTool ==
    /\ now = 0
    /\ last_request = None
    /\ lock_locked = FALSE
    /\ lock_waiters = <<>>
    /\ task = [t \in Tasks |-> IdleTask]
    /\ stamps = <<>>
    /\ last_sent = None
    /\ fn_pc = "ready"
    /\ fn_in \in ToolInputs
    /\ fn_out = NoToolResult

CallTool ==
    /\ fn_pc = "ready"
    /\ fn_out' = call_tool(fn_in.name, fn_in.arguments, fn_in.env)
    /\ fn_pc' = "done"
    /\ UNCHANGED <<now, last_request, lock_locked, lock_waiters, task, stamps,
                   last_sent, fn_in>>

NextTool == CallTool

SpecTool == InitTool /\ [][NextTool]_vars

\* =================================================================== claims
Done(t) == task[t].pc = "done"
InGate(t) == task[t].pc = "sleep"
Failed(t) == Done(t) /\ task[t].result.kind = "raise"
Successful(out) == out.kind = "response" /\ IsSuccess(out.status)
\* What the body of the response is, whatever a parser makes of it.
IsFeed(body) == body \in {"atom_entries", "atom_empty"}

\* Task t leaves the gate's critical section in this step: it was suspended
\* inside it, or it runs through it without suspending.
LeftGate(t) ==
    \/ task[t].pc = "sleep" /\ task'[t].pc # "sleep"
    \/ task[t].pc \in {"idle", "lockwait"} /\ task'[t].pc \in {"done", "connect"}

\* C1: the values stored in _last_request, in order, are at least 3 seconds
\* apart from each other.
C1_StampsSpaced ==
    \A i, j \in 1..Len(stamps) : i < j => stamps[j] - stamps[i] >= 3

C1_Witness ==
    /\ Len(stamps) >= 3
    /\ stamps[3] - stamps[1] = 6
    /\ \E t \in Tasks : task[t].pc = "lockwait"

\* C3: at most one task is inside the gate's critical section, the lock is
\* held while one is, and while a task stays suspended inside it no other task
\* enters it and _last_request is neither written nor read by the gate's body.
C3_MutualExclusion ==
    /\ [](/\ Cardinality({t \in Tasks : InGate(t)}) <= 1
          /\ ((\E t \in Tasks : InGate(t)) => lock_locked))
    /\ [][\A t \in Tasks :
            (task[t].pc = "sleep" /\ task'[t].pc = "sleep") =>
                /\ last_request' = last_request
                /\ stamps' = stamps
                /\ \A u \in Tasks \ {t} :
                       task[u].pc \in {"idle", "lockwait"} =>
                           task'[u].pc \in {"idle", "lockwait", "cancelled"}]_vars

C3_Witness ==
    \E t, u \in Tasks :
        /\ task[t].pc = "sleep"
        /\ task[u].pc = "lockwait"
        /\ task[u].fut = "pending"

\* C4, as claimed: every step by which a task leaves the critical section,
\* cancellation during the delay included, stores the current time and
\* leaves the lock free.
C4_StampOnEveryExit ==
    [][\A t \in Tasks : LeftGate(t) => (last_request' = now /\ ~lock_locked')]_vars

\* C4, amended: every step by which a task leaves the critical section leaves
\* the lock free; a task that leaves it normally has stored the current time
\* in that step; a task cancelled during the delay leaves the timestamp as
\* it was.
C4_ExitReleases ==
    [][\A t \in Tasks :
          LeftGate(t) =>
              /\ ~lock_locked'
              /\ IF task'[t].pc = "cancelled"
                 THEN last_request' = last_request /\ stamps' = stamps
                 ELSE last_request' = now /\ stamps' = Append(stamps, now)]_vars

C4_Witness ==
    \E t, u \in Tasks :
        /\ task[t].pc = "cancelled"
        /\ task[t].cancelledAt = "sleep"
        /\ task[u].pc = "done"
        /\ ~lock_locked
        /\ last_request # None
        /\ last_request < now

\* C5: on a fresh client (no timestamp, lock free, nobody queued) a call of
\* _wait_for_rate_limit returns in the step that makes it, without
\* suspending, and leaves the timestamp at the time of the call.
C5_FreshCallReturnsAtOnce ==
    [][\A t \in Tasks :
          (/\ last_request = None
           /\ ~lock_locked
           /\ lock_waiters = <<>>
           /\ task[t].pc = "idle"
           /\ task'[t].pc # "idle") =>
              /\ task'[t].pc \in {"done", "connect"}
              /\ last_request' = now
              /\ ~lock_locked']_vars

C5_Witness ==
    \E t \in Tasks :
        /\ task[t].pc = "done"
        /\ \A u \in Tasks \ {t} : task[u].pc = "idle"
        /\ stamps = <<now>>
        /\ last_request = now

\* C2, as claimed: the GET requests sent to the remote service start at
\* least 3 seconds apart, whatever delays a task between the gate and its
\* request.
C2_SendsSpaced ==
    [][\A t \in Tasks :
          (task[t].pc = "connect" /\ task'[t].pc = "inflight" /\ last_sent # None) =>
              now - last_sent >= 3]_vars

\* C6: get_paper whose request succeeds with an empty entry list raises the
\* not-found error carrying the requested paper_id, and returns no record.
C6_NotFoundCarriesId ==
    \A t \in Tasks :
        (/\ Done(t)
         /\ task[t].call.op = "get_paper"
         /\ Successful(task[t].outcome)
         /\ feedparser_parse(task[t].outcome.body).entries = <<>>) =>
            /\ task[t].result.kind = "raise"
            /\ task[t].result.value = <<>>
            /\ task[t].result.exc.msg = "Paper not found: "
            /\ task[t].result.exc.detail = task[t].call.paper_id

C6_Witness ==
    \E t, u \in Tasks :
        /\ Done(t) /\ Done(u)
        /\ task[t].call = GetPaperCall("2103.08220")
        /\ task[u].call = GetPaperCall("0000.00000")
        /\ task[t].outcome = HttpResponse(200, "atom_empty")
        /\ task[u].outcome = HttpResponse(200, "atom_empty")
        /\ task[t].result.exc.detail = "2103.08220"
        /\ task[u].result.exc.detail = "0000.00000"

\* C7, as claimed: search returns the empty list exactly when the request
\* succeeded and the response is a feed with an empty entry list; a transport
\* failure or a response that is no feed makes it raise.
C7_EmptyOnlyForEmptyFeed ==
    \A t \in Tasks :
        (Done(t) /\ task[t].call.op = "search") =>
            /\ (task[t].result = ReturnList(<<>>)) <=>
                   (/\ Successful(task[t].outcome)
                    /\ IsFeed(task[t].outcome.body)
                    /\ feedparser_parse(task[t].outcome.body).entries = <<>>)
            /\ (~Successful(task[t].outcome) \/ ~IsFeed(task[t].outcome.body)) =>
                   task[t].result.kind = "raise"

\* C8, as claimed: a 2xx response whose body is no feed at all makes search
\* and get_paper raise the malformed-response error.
C8_NoFeedIsMalformed ==
    \A t \in Tasks :
        (Done(t) /\ Successful(task[t].outcome) /\ ~IsFeed(task[t].outcome.body)) =>
            task[t].result = InvalidResponseRaised

\* The cause of a failure, as the claim classifies it.
FailureCause(call, out) ==
    IF RaisesHTTPError(out) THEN "transport"
    ELSE IF InvalidFeed(feedparser_parse(out.body)) THEN "malformed"
    ELSE IF call.op = "get_paper" /\ feedparser_parse(out.body).entries = <<>>
         THEN "not_found"
    ELSE "none"

CauseOf(t) == FailureCause(task[t].call, task[t].outcome)

\* The text each cause is reported with.
MessageOf(cause) ==
    CASE cause = "transport" -> "arXiv API HTTP error: "
      [] cause = "malformed" -> "Invalid response from arXiv API"
      [] cause = "not_found" -> "Paper not found: "
      [] OTHER -> ""

C10_MaxResultsClamped ==
    \A t \in Tasks :
        (task[t].call.op = "search" /\ task[t].pc \in {"connect", "inflight", "done"}) =>
            task[t].req.max_results =
                IF task[t].call.max_results > 2000 THEN 2000
                ELSE task[t].call.max_results

C10_Witness ==
    \E t, u \in Tasks :
        /\ task[t].pc = "inflight" /\ task[u].pc = "inflight"
        /\ task[t].call.max_results = 5000 /\ task[t].req.max_results = 2000
        /\ task[u].call.max_results = -5 /\ task[u].req.max_results = -5

\* The href of the first link of a type, Null when there is none.
FirstOfType(links, type) ==
    IF \E i \in 1..Len(links) : links[i].type = type
    THEN LET first == CHOOSE i \in 1..Len(links) :
                          /\ links[i].type = type
                          /\ \A j \in 1..(i - 1) : links[j].type # type
         IN links[first].href
    ELSE Null

\* C11, as claimed: pdf_url is the href of the first application/pdf link and
\* html_url the href of the first text/html link of the entry, whatever the
\* order of the links, and each is null exactly when no link has its type.
C11_FirstLinkWins ==
    fn_pc = "done" =>
        /\ fn_out.pdf_url = FirstOfType(fn_in.links, "application/pdf")
        /\ fn_out.html_url = FirstOfType(fn_in.links, "text/html")

\* C12: a call opens at most one HTTP client, a client is open only while
\* its call awaits client.get, and it is closed once the call has ended, by a
\* return, an error or a cancellation.
C12_ClientClosedOnExit ==
    \A t \in Tasks :
        /\ task[t].clients_opened <= 1
        /\ task[t].client_open =>
               (task[t].clients_opened = 1 /\ task[t].pc \in {"connect", "inflight"})
        /\ task[t].pc \in {"done", "cancelled"} => ~task[t].client_open

C12_Witness ==
    \E t, u \in Tasks :
        /\ Failed(t) /\ CauseOf(t) = "not_found"
        /\ task[t].clients_opened = 1 /\ ~task[t].client_open
        /\ task[u].pc = "cancelled" /\ task[u].cancelledAt = "request"
        /\ task[u].clients_opened = 1 /\ ~task[u].client_open

\* C13: a call returns from the rate gate at most once, and exactly once
\* before it opens its client; it sends at most one GET request, and only
\* after its own return from the gate; a request that failed ends the call
\* with the error, with no further request.
C13_NoRetry ==
    \A t \in Tasks :
        /\ task[t].gate_passes <= 1
        /\ task[t].requests <= 1
        /\ task[t].requests = 1 => task[t].gate_passes = 1
        /\ task[t].pc \in {"connect", "inflight", "done"} => task[t].gate_passes = 1
        /\ task[t].pc \in {"idle", "lockwait", "sleep"} =>
               (task[t].gate_passes = 0 /\ task[t].requests = 0)
        /\ (Done(t) /\ RaisesHTTPError(task[t].outcome)) => Failed(t)

C13_Witness ==
    \E t \in Tasks :
        /\ Failed(t)
        /\ task[t].outcome = HttpResponse(503, "error_page")
        /\ task[t].gate_passes = 1
        /\ task[t].requests = 1

OperationFailed(in) ==
    CASE in.name = "search_papers" ->
             \/ in.arguments.query = Absent
             \/ in.arguments.max_results = "many"
             \/ in.env.search.kind = "raise"
      [] in.name = "get_paper_data" ->
             \/ in.arguments.paper_id = Absent
             \/ in.env.paper.kind = "raise"
      [] in.name = "list_categories" -> in.env.load # "taxonomy"
      [] in.name = "update_categories" -> in.env.update # "taxonomy"
      [] OTHER -> TRUE

\* C14, as claimed: call_tool always returns text content and raises
\* nothing, and whenever the operation failed (client error, taxonomy load or
\* refresh error, missing argument, unknown tool) the text is flagged as an
\* error.
C14_FailuresFlagged ==
    fn_pc = "done" =>
        /\ fn_out.kind = "return"
        /\ fn_out.content.type = "text"
        /\ OperationFailed(fn_in) => fn_out.content.isError

SleepReturns(t) == task[t].pc = "sleep" /\ task'[t].pc = "done"

\* C15, as claimed: a task that suspended inside the gate is granted its slot
\* exactly one interval after the previous grant, neither earlier nor later.
C15_ExactCadence ==
    [][\A t \in Tasks : SleepReturns(t) => last_request' = last_request + Interval]_vars

\* C15, amended: a task that suspends inside the gate asks for exactly the
\* interval minus the elapsed time, so its sleep is due one interval after the
\* previous grant; its slot is granted no earlier than that, and exactly then
\* when the sleep returns on time.
C15_CadenceWhenOnTime ==
    /\ [](\A t \in Tasks :
            task[t].pc = "sleep" =>
                /\ last_request # None
                /\ task[t].wakeAt = last_request + Interval)
    /\ [][\A t \in Tasks :
            SleepReturns(t) =>
                /\ last_request' >= last_request + Interval
                /\ now = task[t].wakeAt => last_request' = last_request + Interval]_vars

C15_Witness ==
    /\ Len(stamps) = 2
    /\ stamps[2] = stamps[1] + Interval
    /\ lock_waiters # <<>>
    /\ \E t \in Tasks :
           /\ task[t].pc = "sleep"
           /\ now = last_request
           /\ task[t].wakeAt = stamps[2] + Interval

RECURSIVE GatePasses(_)
GatePasses(n) == IF n = 0 THEN 0 ELSE task[n].gate_passes + GatePasses(n - 1)

\* The step is task t's return from _wait_for_rate_limit.
ReturnsFromGate(t) ==
    /\ task[t].pc \in {"idle", "lockwait", "sleep"}
    /\ task'[t].gate_passes = task[t].gate_passes + 1
    /\ lock_locked => task[t].pc = "sleep"

\* C16: _last_request is written only by a task returning from the gate, which
\* holds the lock and stores the current time; the steps of a call after the
\* gate (connecting, the request, its outcome, its cancellation) leave it
\* unchanged, so every call that passed the gate, failed or not, has its
\* timestamp kept and a later caller waits for the interval after it.
C16_OnlyGateWritesTimestamp ==
    /\ [][(last_request' # last_request \/ stamps' # stamps) =>
              /\ \E t \in Tasks : ReturnsFromGate(t)
              /\ last_request' = now
              /\ stamps' = Append(stamps, now)]_vars
    /\ [][\A t \in Tasks :
              (task[t].pc \in {"connect", "inflight"} /\ task'[t] # task[t]) =>
                  UNCHANGED <<last_request, stamps, lock_locked, lock_waiters>>]_vars
    /\ [](Len(stamps) = GatePasses(NTasks))
    /\ [](\A t \in Tasks :
              task[t].gate_passes = 1 =>
                  (last_request # None /\ last_request = stamps[Len(stamps)]))

C16_Witness ==
    \E t, u \in Tasks :
        /\ Failed(t)
        /\ stamps = <<last_request>>
        /\ task[u].pc = "sleep"
        /\ task[u].wakeAt = last_request + Interval

Waiting(t) == task[t].pc \in {"lockwait", "sleep"}
Returned(t) == Done(t) /\ task[t].gate_passes = 1

\* C17: under the event loop's scheduling every task that waits in the rate
\* gate, for the lock or in its sleep, leaves it in the end: it returns with
\* its timestamp recorded, unless it was cancelled; and the lock is free
\* whenever no task is waiting in the gate.
C17_GateLive ==
    /\ \A t \in FairTasks : Waiting(t) ~> (Returned(t) \/ task[t].pc = "cancelled")
    /\ []((\A t \in FairTasks : ~Waiting(t)) => ~lock_locked)
    /\ [](\A t \in FairTasks : Done(t) => Returned(t))

C17_Witness ==
    /\ \A t \in FairTasks : Returned(t)
    /\ Len(stamps) = NFairTasks
    /\ ~lock_locked
    /\ lock_waiters = <<>>

====
